---- MODULE Spec2Model ----
(***************************************************************************)
(* Model of sentiment-dashboard/app.py: the classifier client              *)
(* (query_sentiment), the single-text analysis of tab 1 and the batch      *)
(* analysis of tab 2 (text column detection, credential check, the         *)
(* per-row loop that accumulates `results`).                               *)
(*                                                                         *)
(* Python values (None, str, numbers, lists, dicts: the values JSON        *)
(* decoding produces) are tagged records [t, v], so that truthiness,       *)
(* subscripting and isinstance behave as they do in Python.                *)
(* A score is the integer k standing for k / MaxScore, so 0 is the score   *)
(* 0.0 and MaxScore is the score 1.0.                                      *)
(* Column names are sequences of characters, so that str.lower() is        *)
(* computed character by character.                                        *)
(***************************************************************************)
EXTENDS Integers, Sequences, FiniteSets, TLC

VARIABLES api_key, df, text_input, text_column, pc, i, sent, response, ret,
          results, errors, exception, shown

vars == <<api_key, df, text_input, text_column, pc, i, sent, response, ret,
          results, errors, exception, shown>>

----------------------------------------------------------------------------
(* Bounds of the model *)

MaxRows == 2
MaxCols == 2
MaxScore == 2
MaxGroup == 2

----------------------------------------------------------------------------
(* Python values *)

PyNone == [t |-> "none", v |-> 0]
PyStr(s) == [t |-> "str", v |-> s]
PyNum(n) == [t |-> "num", v |-> n]
PyList(xs) == [t |-> "list", v |-> xs]
PyDict(d) == [t |-> "dict", v |-> d]

\* bool(x) as Python's `and` / `if` / `not` evaluate it
Truthy(x) ==
    CASE x.t = "none" -> FALSE
      [] x.t = "str"  -> x.v # ""
      [] x.t = "num"  -> x.v # 0
      [] x.t = "list" -> x.v # <<>>
      [] OTHER        -> TRUE

\* the outcome of evaluating a Python expression: a value or an exception
Ok(x) == [ok |-> TRUE, val |-> x, exc |-> ""]
Err(e) == [ok |-> FALSE, val |-> PyNone, exc |-> e]

\* x[0]; of a string it is a string of one character, of which only the type
\* matters to what follows
Index0(x) ==
    CASE x.t = "list" -> IF x.v = <<>> THEN Err("IndexError") ELSE Ok(x.v[1])
      [] x.t = "str"  -> IF x.v = "" THEN Err("IndexError") ELSE Ok(PyStr(x.v))
      [] x.t = "dict" -> Err("KeyError")
      [] OTHER        -> Err("TypeError")

\* x[k] for a string key k
GetItem(x, k) ==
    CASE x.t = "dict" -> IF k \in DOMAIN x.v THEN Ok(x.v[k]) ELSE Err("KeyError")
      [] OTHER        -> Err("TypeError")

----------------------------------------------------------------------------
(* str.lower() on sequences of characters *)

Upper == <<"A","B","C","D","E","F","G","H","I","J","K","L","M",
           "N","O","P","Q","R","S","T","U","V","W","X","Y","Z">>
LowerLetters == <<"a","b","c","d","e","f","g","h","i","j","k","l","m",
                  "n","o","p","q","r","s","t","u","v","w","x","y","z">>

LowerChar(c) ==
    IF \E k \in 1..Len(Upper) : Upper[k] = c
    THEN LowerLetters[CHOOSE k \in 1..Len(Upper) : Upper[k] = c]
    ELSE c

Lower(s) == [k \in 1..Len(s) |-> LowerChar(s[k])]

----------------------------------------------------------------------------
(* The uploaded table *)

possible_names ==
    << <<"t","e","x","t">>, <<"T","e","x","t">>, <<"T","E","X","T">>,
       <<"c","o","m","m","e","n","t">>, <<"C","o","m","m","e","n","t">>,
       <<"r","e","v","i","e","w">>, <<"R","e","v","i","e","w">>,
       <<"c","o","n","t","e","n","t">>, <<"C","o","n","t","e","n","t">>,
       <<"m","e","s","s","a","g","e">>, <<"M","e","s","s","a","g","e">> >>

\* the column names the uploaded tables draw from
ColumnNames ==
    { <<"i","d">>, <<"t","e","x","t","s">>, <<"T","E","X","T">>,
      <<"m","E","s","S","a","G","e">> }

\* pandas keeps the column names of a table distinct
ColumnLists ==
    { cs \in UNION { [1..n -> ColumnNames] : n \in 1..MaxCols } :
        \A a, b \in 1..Len(cs) : a # b => cs[a] # cs[b] }

Tables == [columns : ColumnLists, nrows : 1..MaxRows]
NoTable == [columns |-> <<>>, nrows |-> 0]

\* the cell of column c in row r: every cell of a table is a different value
Cell(c, r) == [col |-> c, row |-> r]

\* str(row)
Str(x) == <<"str", x>>

\* df[text_column], row by row
Row(r) == Cell(text_column, r)

----------------------------------------------------------------------------
(* What the inference endpoint can answer *)

\* requests.post raised a RequestException (connection error, timeout, ...)
NetworkError == [kind |-> "exception", status |-> 0, body |-> PyNone]
Http(status, body) == [kind |-> "http", status |-> status, body |-> body]
NoResponse == [kind |-> "none", status |-> 0, body |-> PyNone]

\* a body that is not JSON at all
NotJson == [t |-> "notjson", v |-> 0]

Scores == 0..MaxScore

\* the labels of the emotion model, and one label it does not know
AllLabels == {"sadness", "joy", "love", "anger", "fear", "surprise", "LABEL_2"}
FewLabels == {"joy", "anger", "LABEL_2"}

\* the elements a prediction group may hold: {label, score} objects, objects
\* missing a key, and values that are no objects
Entries(labels) ==
    { PyDict([label |-> PyStr(l), score |-> PyNum(s)]) : l \in labels, s \in Scores }
    \cup { PyDict([label |-> PyStr("joy")]), PyDict([score |-> PyNum(MaxScore)]),
           PyDict([error |-> PyStr("x")]), PyStr("joy"), PyNone }

Groups(labels, n) ==
    { PyList(g) : g \in UNION { [1..k -> Entries(labels)] : k \in 0..n } }

OtherGroup == PyList(<<PyDict([label |-> PyStr("fear"), score |-> PyNum(MaxScore)])>>)

\* the decoded bodies of a 2xx answer: a list of one group, a list of two
\* groups, a list of something else, no list at all
Bodies(labels, n) ==
    { PyList(<<g>>) : g \in Groups(labels, n) }
    \cup { PyList(<<g, OtherGroup>>) : g \in Groups(labels, 1) }
    \cup { PyList(<<>>), PyList(<<PyDict([label |-> PyStr("joy"), score |-> PyNum(MaxScore)])>>),
           PyList(<<PyStr("joy")>>), PyList(<<PyNone>>),
           PyDict([error |-> PyStr("loading")]), PyStr("ok"), PyNum(1), PyNone,
           NotJson }

ErrorStatuses == {401, 403, 404, 503}

ResponsesOver(labels, n) ==
    { NetworkError }
    \cup { Http(s, PyNone) : s \in ErrorStatuses }
    \cup { Http(200, b) : b \in Bodies(labels, n) }

\* the single-text analysis is given every label in groups of one entry and
\* a few labels in groups of several entries; the batch, which multiplies the
\* answers of all its rows, is given a few labels in groups of one entry
SingleResponses == ResponsesOver(AllLabels, 1) \cup ResponsesOver(FewLabels, MaxGroup)
BatchResponses == ResponsesOver(FewLabels, 1)

\* what response.json() may do with the body (see QueryOutcome)
JsonErrorChoices(resp) == IF resp.body.t = "notjson" THEN BOOLEAN ELSE {TRUE}

----------------------------------------------------------------------------
(* query_sentiment *)

\* label_map with the 'love' entry left out
label_map_without_love ==
    [sadness |-> "Negative", joy |-> "Positive",
     anger |-> "Negative", fear |-> "Negative", surprise |-> "Positive"]

label_map ==
    [sadness |-> "Negative", joy |-> "Positive", love |-> "Positive",
     anger |-> "Negative", fear |-> "Negative", surprise |-> "Positive"]

\* label_map.get(emotion, 'Neutral')
SimpleLabel(emotion) ==
    IF emotion.t = "str" /\ emotion.v \in DOMAIN label_map
    THEN label_map[emotion.v]
    ELSE "Neutral"

\* the messages st.error shows
MsgEnterToken == "Please enter your Hugging Face API token in the sidebar."
MsgInvalidKey == "Invalid API key. Please check your Hugging Face token."
MsgDenied == "API access denied. The model may need to load."
MsgUnexpected == "Unexpected API response"
\* f"Error calling the API: {e}", for the three exceptions e can be
MsgApiErrorNetwork == "Error calling the API: connection failed"
MsgApiErrorHttp == "Error calling the API: HTTP error status"
MsgApiErrorJson == "Error calling the API: the body is no JSON"
MsgAnalysisFailed == "Analysis failed. Please check your API key and try again."
MsgNoColumn == "No suitable text column found."
MsgTokenFirst == "Please enter your Hugging Face API token first."

\* return None, None, None
NoneTriple == [label |-> PyNone, score |-> PyNone, emotion |-> PyNone]

\* query_sentiment either returns a triple, after showing at most one
\* message, or lets an exception escape
Returned(triple, msg) == [raised |-> FALSE, exc |-> "", ret |-> triple, msg |-> msg]
Raised(e) == [raised |-> TRUE, exc |-> e, ret |-> NoneTriple, msg |-> ""]

\* result[0][-1] in place of result[0][0]
top_prediction_last(result) ==
    LET group == Index0(result)
    IN  IF ~group.ok THEN group
        ELSE IF group.val.t = "list" /\ group.val.v # <<>>
             THEN Ok(group.val.v[Len(group.val.v)])
             ELSE Index0(group.val)

\* top_prediction = result[0][0]
top_prediction(result) ==
    LET group == Index0(result)
    IN  IF group.ok THEN Index0(group.val) ELSE group

\* the isinstance(result, list) branch
ParsePrediction(result) ==
    LET top == top_prediction(result)
    IN  IF ~top.ok THEN Raised(top.exc)
        ELSE LET emotion == GetItem(top.val, "label")
             IN  IF ~emotion.ok THEN Raised(emotion.exc)
                 ELSE LET simple_label == SimpleLabel(emotion.val)
                          score == GetItem(top.val, "score")
                      IN  IF ~score.ok THEN Raised(score.exc)
                          ELSE Returned([label |-> PyStr(simple_label),
                                         score |-> score.val,
                                         emotion |-> emotion.val], "")

\* query_sentiment from the answer of requests.post on. response.json() on a
\* body that is no JSON raises requests' JSONDecodeError, which is a
\* RequestException (caught) from requests 2.27 on and a plain ValueError
\* (escaping) before: jsonErrorCaught is which of the two the installed
\* requests does.
QueryOutcome(resp, jsonErrorCaught) ==
    IF resp.kind = "exception" THEN Returned(NoneTriple, MsgApiErrorNetwork)
    ELSE IF resp.status = 401 THEN Returned(NoneTriple, MsgInvalidKey)
    ELSE IF resp.status = 403 THEN Returned(NoneTriple, MsgDenied)
    ELSE IF resp.status >= 400 THEN Returned(NoneTriple, MsgApiErrorHttp)
    ELSE IF resp.body.t = "notjson"
         THEN IF jsonErrorCaught THEN Returned(NoneTriple, MsgApiErrorJson)
              ELSE Raised("ValueError")
    ELSE IF resp.body.t = "list" THEN ParsePrediction(resp.body)
    ELSE Returned(NoneTriple, MsgUnexpected)

\* st.error(msg), when there is a message
Report(log, msg) == IF msg = "" THEN log ELSE Append(log, msg)

----------------------------------------------------------------------------
(* The request, as both tabs issue it *)

\* payload = {"inputs": text}; requests.post(API_URL, headers=headers, json=payload)
Request(text) == [inputs |-> text, authorization |-> api_key]

----------------------------------------------------------------------------
(* Tab 2: batch analysis of an uploaded table *)

\* col in possible_names, with no lower()
IsTextName_exact(col) ==
    \E k \in 1..Len(possible_names) : col = possible_names[k]

\* col.lower() in [name.lower() for name in possible_names]
IsTextName(col) ==
    \E k \in 1..Len(possible_names) : Lower(col) = Lower(possible_names[k])

\* the for loop over df.columns with its break: the first column that
\* matches, 0 standing for None
FindTextColumn(columns) ==
    IF \E c \in 1..Len(columns) : IsTextName(columns[c])
    THEN CHOOSE c \in 1..Len(columns) :
            /\ IsTextName(columns[c])
            /\ \A b \in 1..(c - 1) : ~IsTextName(columns[b])
    ELSE 0

\* the script run that follows the upload: the column is detected, and
\* without one the button that starts the analysis is never drawn
DetectTextColumn ==
    /\ pc = "uploaded"
    /\ text_column' = FindTextColumn(df.columns)
    /\ IF text_column' = 0
       THEN /\ errors' = Append(errors, MsgNoColumn)
            /\ pc' = "no_column"
       ELSE /\ errors' = errors
            /\ pc' = "ready"
    /\ UNCHANGED <<api_key, df, text_input, i, sent, response, ret, results,
                   exception, shown>>

\* the button with the credential check left out
AnalyzeBatchClick_unchecked ==
    /\ pc = "ready"
    /\ results' = <<>>
    /\ i' = 1
    /\ pc' = "iter"
    /\ UNCHANGED <<api_key, df, text_input, text_column, sent, response, ret,
                   exception, shown, errors>>

\* the "Analyze Entire File" button: the credential check, then results = []
AnalyzeBatchClick ==
    /\ pc = "ready"
    /\ IF api_key = ""
       THEN /\ errors' = Append(errors, MsgTokenFirst)
            /\ pc' = "rejected"
            /\ UNCHANGED <<i, results>>
       ELSE /\ results' = <<>>
            /\ i' = 1
            /\ pc' = "iter"
            /\ errors' = errors
    /\ UNCHANGED <<api_key, df, text_input, text_column, sent, response, ret,
                   exception, shown>>

\* one iteration up to requests.post: query_sentiment(str(row)) is called for
\* row i and sends its request
SendRequest ==
    /\ pc = "iter"
    /\ i <= df.nrows
    /\ IF api_key = ""
       THEN /\ errors' = Append(errors, MsgEnterToken)
            /\ sent' = sent
       ELSE /\ sent' = Append(sent, Request(Str(Row(i))))
            /\ errors' = errors
    /\ pc' = "await"
    /\ response' = NoResponse
    /\ UNCHANGED <<api_key, df, text_input, text_column, i, ret, results,
                   exception, shown>>

\* the entry the loop appends for a row, from what query_sentiment returned
\* (its text_length, a function of the text alone, is left out)
BatchEntry(row, r) ==
    IF Truthy(r.label) /\ Truthy(r.score)
    THEN [text |-> row, sentiment |-> r.label, confidence |-> r.score,
          detailed_emotion |-> r.emotion]
    ELSE [text |-> row, sentiment |-> PyStr("Error"), confidence |-> PyNum(0),
          detailed_emotion |-> PyStr("error")]

\* the loop breaking off after a 401
HandleOutcome_fatal401(q) ==
    IF q.raised
    THEN /\ pc' = "crashed"
         /\ exception' = q.exc
         /\ UNCHANGED <<i, ret, results, errors>>
    ELSE /\ ret' = q.ret
         /\ errors' = Report(errors, q.msg)
         /\ results' = Append(results, BatchEntry(Row(i), q.ret))
         /\ i' = i + 1
         /\ pc' = IF i + 1 > df.nrows \/ q.msg = MsgInvalidKey THEN "done" ELSE "iter"
         /\ exception' = exception

\* the loop asking again for a row whose call failed
HandleOutcome_retry(q) ==
    IF q.raised
    THEN /\ pc' = "crashed"
         /\ exception' = q.exc
         /\ UNCHANGED <<i, ret, results, errors>>
    ELSE IF q.ret = NoneTriple /\ Len(errors) < df.nrows
    THEN /\ ret' = q.ret
         /\ errors' = Report(errors, q.msg)
         /\ pc' = "iter"
         /\ UNCHANGED <<i, results, exception>>
    ELSE /\ ret' = q.ret
         /\ errors' = Report(errors, q.msg)
         /\ results' = Append(results, BatchEntry(Row(i), q.ret))
         /\ i' = i + 1
         /\ pc' = IF i + 1 > df.nrows THEN "done" ELSE "iter"
         /\ exception' = exception

\* lines 190-206 and the loop's step: an exception escaping query_sentiment
\* ends the script run; otherwise the entry is appended and the loop goes on
\* to the next row or, after the last one, to the report
HandleOutcome(q) ==
    IF q.raised
    THEN /\ pc' = "crashed"
         /\ exception' = q.exc
         /\ UNCHANGED <<i, ret, results, errors>>
    ELSE /\ ret' = q.ret
         /\ errors' = Report(errors, q.msg)
         /\ results' = Append(results, BatchEntry(Row(i), q.ret))
         /\ i' = i + 1
         /\ pc' = IF i + 1 > df.nrows THEN "done" ELSE "iter"
         /\ exception' = exception

\* the rest of the iteration: the answer arrives, query_sentiment returns or
\* raises, and the loop handles the outcome
ReceiveResponse ==
    /\ pc = "await"
    /\ \E resp \in BatchResponses : \E jsonErrorCaught \in JsonErrorChoices(resp) :
        /\ response' = IF api_key = "" THEN response ELSE resp
        /\ HandleOutcome(IF api_key = "" THEN Returned(NoneTriple, "")
                         ELSE QueryOutcome(resp, jsonErrorCaught))
    /\ UNCHANGED <<api_key, df, text_input, text_column, sent, shown>>

Init ==
    /\ api_key \in {"", "hf_token"}
    /\ df \in Tables
    /\ text_input = ""
    /\ text_column = 0
    /\ pc = "uploaded"
    /\ i = 0
    /\ sent = <<>>
    /\ response = NoResponse
    /\ ret = NoneTriple
    /\ results = <<>>
    /\ errors = <<>>
    /\ exception = ""
    /\ shown = NoneTriple

Next ==
    \/ DetectTextColumn
    \/ AnalyzeBatchClick
    \/ SendRequest
    \/ ReceiveResponse

Spec == Init /\ [][Next]_vars

----------------------------------------------------------------------------
(* Tab 1: analysis of one pasted text *)

Texts == {"", "I absolutely love this product!"}

\* the "Analyze Sentiment" button up to requests.post; without a credential
\* query_sentiment returns None at once and the failure is shown
AnalyzeSingleClick ==
    /\ pc = "single_idle"
    /\ IF api_key = ""
       THEN /\ errors' = errors \o <<MsgEnterToken, MsgAnalysisFailed>>
            /\ ret' = NoneTriple
            /\ pc' = "single_done"
            /\ sent' = sent
       ELSE /\ sent' = Append(sent, Request(text_input))
            /\ pc' = "single_await"
            /\ UNCHANGED <<errors, ret>>
    /\ UNCHANGED <<api_key, df, text_input, text_column, i, response, results,
                   exception, shown>>

\* the answer arrives: query_sentiment returns or raises, and the metrics or
\* the failure are shown
SingleReceive ==
    /\ pc = "single_await"
    /\ \E resp \in SingleResponses : \E jsonErrorCaught \in JsonErrorChoices(resp) :
        LET q == QueryOutcome(resp, jsonErrorCaught)
        IN  /\ response' = resp
            /\ IF q.raised
               THEN /\ pc' = "crashed"
                    /\ exception' = q.exc
                    /\ UNCHANGED <<ret, errors, shown>>
               ELSE /\ ret' = q.ret
                    /\ pc' = "single_done"
                    /\ exception' = exception
                    /\ IF Truthy(q.ret.label) /\ Truthy(q.ret.score)
                       THEN /\ shown' = q.ret
                            /\ errors' = Report(errors, q.msg)
                       ELSE /\ shown' = shown
                            /\ errors' = Append(Report(errors, q.msg),
                                                MsgAnalysisFailed)
    /\ UNCHANGED <<api_key, df, text_input, text_column, i, sent, results>>

InitSingle ==
    /\ api_key \in {"", "hf_token"}
    /\ df = NoTable
    /\ text_input \in Texts
    /\ text_column = 0
    /\ pc = "single_idle"
    /\ i = 0
    /\ sent = <<>>
    /\ response = NoResponse
    /\ ret = NoneTriple
    /\ results = <<>>
    /\ errors = <<>>
    /\ exception = ""
    /\ shown = NoneTriple

NextSingle ==
    \/ AnalyzeSingleClick
    \/ SingleReceive

SpecSingle == InitSingle /\ [][NextSingle]_vars

----------------------------------------------------------------------------
(* Vocabulary of the properties *)

Range(f) == { f[k] : k \in DOMAIN f }

\* the entry a failed row is given
ErrorEntry(row) ==
    [text |-> row, sentiment |-> PyStr("Error"), confidence |-> PyNum(0),
     detailed_emotion |-> PyStr("error")]

\* the script run of the batch is over, with its report or with an exception
RunEnded == pc \in {"done", "crashed"}

\* the answer to the latest request has just been dealt with
Handled == pc \in {"iter", "done", "crashed"} /\ response # NoResponse

Success2xx == response.kind = "http" /\ response.status = 200

LastEntry == results[Len(results)]

\* a {label, score} object
IsPrediction(e) == e.t = "dict" /\ {"label", "score"} \subseteq DOMAIN e.v

\* a non-empty list whose first element is a non-empty list of {label, score}
\* objects
ExpectedShape(b) ==
    /\ b.t = "list" /\ b.v # <<>>
    /\ b.v[1].t = "list" /\ b.v[1].v # <<>>
    /\ \A k \in 1..Len(b.v[1].v) : IsPrediction(b.v[1].v[k])

FirstGroup(b) == b.v[1].v

\* the first-listed entry among those of the highest score
Best(group) ==
    group[CHOOSE k \in 1..Len(group) :
            /\ \A j \in 1..Len(group) : group[j].v.score.v <= group[k].v.score.v
            /\ \A j \in 1..(k - 1) : group[j].v.score.v < group[k].v.score.v]

SortedDescending(group) ==
    \A j \in 1..(Len(group) - 1) : group[j].v.score.v >= group[j + 1].v.score.v

\* the category a raw label stands for
Category(l) ==
    IF l \in {"joy", "love", "surprise"} THEN "Positive"
    ELSE IF l \in {"sadness", "anger", "fear"} THEN "Negative"
    ELSE "Neutral"

TextWords ==
    { <<"t","e","x","t">>, <<"c","o","m","m","e","n","t">>,
      <<"r","e","v","i","e","w">>, <<"c","o","n","t","e","n","t">>,
      <<"m","e","s","s","a","g","e">> }

\* the column names that are, ignoring case, one of the five words
TextColumnNames == { n \in ColumnNames : Lower(n) \in TextWords }

\* the columns of the table so named
MatchingColumns == { c \in 1..Len(df.columns) : df.columns[c] \in TextColumnNames }

FirstMatching == CHOOSE c \in MatchingColumns : \A b \in MatchingColumns : c <= b

----------------------------------------------------------------------------
(* The claims *)

\* C1 (as stated): a batch run started with a credential ends, whatever each
\* row's classifier call did, with one entry per input row, the k-th entry
\* carrying the k-th row.
C1_FullLengthResult ==
    (api_key # "" /\ RunEnded) =>
        /\ Len(results) = df.nrows
        /\ \A k \in 1..Len(results) : results[k].text = Cell(text_column, k)

\* C2 (as stated): a row whose call fails with a network exception or a
\* non-2xx status other than 401/403 gets the entry Error with confidence 0,
\* and in a run where that happened every row has been sent to the classifier
\* and has its entry when the run ends.
C2_TransportFailureIsolated ==
    /\ (Handled /\ (response.kind = "exception" \/ response.status \in {404, 503})) =>
          pc # "crashed" /\ LastEntry = ErrorEntry(Cell(text_column, Len(results)))
    /\ (RunEnded /\ Range(errors) \cap {MsgApiErrorNetwork, MsgApiErrorHttp} # {}) =>
          Len(sent) = df.nrows /\ Len(results) = df.nrows

\* C3 (as stated): for a successful answer whose first group is a list of
\* {label, score} objects in any order, query_sentiment returns the label and
\* score of the highest-scoring entry, the first-listed one among ties.
C3_ReturnsHighestScore ==
    (pc = "single_done" /\ Success2xx /\ ExpectedShape(response.body)) =>
        /\ ret.emotion = Best(FirstGroup(response.body)).v.label
        /\ ret.score = Best(FirstGroup(response.body)).v.score

\* C3 (amended): query_sentiment returns the label and score of the
\* first-listed entry of the first group; that is the highest-scoring entry
\* (the first-listed among ties) whenever the group is sorted by descending
\* score.
C3_ReturnsFirstListed ==
    (pc = "single_done" /\ Success2xx /\ ExpectedShape(response.body)) =>
        /\ ret.emotion = FirstGroup(response.body)[1].v.label
        /\ ret.score = FirstGroup(response.body)[1].v.score
        /\ SortedDescending(FirstGroup(response.body)) =>
              /\ ret.emotion = Best(FirstGroup(response.body)).v.label
              /\ ret.score = Best(FirstGroup(response.body)).v.score

\* a group whose first entry is not its highest-scoring one has been answered
C3_Witness ==
    /\ pc = "single_done" /\ Success2xx /\ ExpectedShape(response.body)
    /\ Len(FirstGroup(response.body)) >= 2
    /\ FirstGroup(response.body)[1].v.score.v < FirstGroup(response.body)[2].v.score.v
    /\ ret.score = FirstGroup(response.body)[1].v.score

\* C4 (as stated): with an empty credential the batch run issues no request
\* and yields an authentication-error entry for every input row.
C4_ErrorEntryPerRow ==
    (api_key = "" /\ pc = "rejected") =>
        /\ sent = <<>>
        /\ Len(results) = df.nrows
        /\ \A k \in 1..Len(results) : results[k].sentiment = PyStr("Error")

\* C4 (amended): with an empty credential the batch run issues no request,
\* stops before its first row with the one message asking for the token, and
\* produces no result entry at all.
C4_NoRequestNoEntry ==
    api_key = "" =>
        /\ sent = <<>>
        /\ results = <<>>
        /\ pc \in {"uploaded", "no_column", "ready", "rejected"}
        /\ pc = "rejected" => errors = <<MsgTokenFirst>>

\* the button has been pressed with no credential
C4_Witness == api_key = "" /\ pc = "rejected" /\ df.nrows >= 2

\* C5: the category query_sentiment returns is a function of the raw label
\* alone: Positive for joy, love and surprise, Negative for sadness, anger and
\* fear, Neutral for every other label, and never anything else.
C5_LabelNormalization ==
    /\ (pc = "single_done" /\ ret.label # PyNone) =>
          /\ ret.label = PyStr(Category(ret.emotion.v))
          /\ ret.label.v \in {"Positive", "Negative", "Neutral"}
    /\ (pc = "single_done" /\ Success2xx /\ ExpectedShape(response.body)) =>
          ret.label = PyStr(Category(FirstGroup(response.body)[1].v.label.v))

\* a label the map does not know has been normalized to Neutral
C5_Witness ==
    /\ pc = "single_done"
    /\ ret.emotion = PyStr("LABEL_2")
    /\ ret.label = PyStr("Neutral")

\* C6 (as stated): a 2xx body that is JSON but has not the expected shape
\* leaves the row with the entry Error, confidence 0, and the batch goes on.
C6_MalformedIsolated ==
    (Handled /\ Success2xx /\ response.body.t # "notjson"
             /\ ~ExpectedShape(response.body)) =>
        /\ pc # "crashed"
        /\ LastEntry = ErrorEntry(Cell(text_column, Len(results)))

\* C7: with no column named, ignoring case, text/comment/review/content/
\* message, no request is ever issued and no entry produced; otherwise the
\* column used, for every request and every entry, is the first such column.
C7_TextColumn ==
    /\ pc = "uploaded" => sent = <<>> /\ results = <<>>
    /\ pc # "uploaded" =>
          IF MatchingColumns = {}
          THEN text_column = 0 /\ pc = "no_column" /\ sent = <<>> /\ results = <<>>
          ELSE /\ text_column = FirstMatching
               /\ pc # "no_column"
               /\ \A k \in 1..Len(sent) : sent[k].inputs = Str(Cell(FirstMatching, k))
               /\ \A k \in 1..Len(results) : results[k].text = Cell(FirstMatching, k)

\* a request has been issued from a second column whose name matches only
\* when case is ignored, the first column not matching
C7_Witness ==
    /\ Len(df.columns) >= 2
    /\ df.columns[1] \notin TextColumnNames
    /\ df.columns[2] \notin TextWords
    /\ text_column = 2
    /\ Len(sent) >= 1

\* C8 (as stated): once a 401 has been received for a row, no request is
\* issued for any later row of the run.
C8_NoRequestAfter401 == ~(pc = "await" /\ MsgInvalidKey \in Range(errors))

\* C8 (amended): a 401 received for a row is not fatal for the run: it is
\* reported, the row gets the entry Error with confidence 0, and the loop goes
\* on to issue the request of the next row, or to the report after the last.
C8_401IsPerRow ==
    (Handled /\ response.kind = "http" /\ response.status = 401) =>
        /\ pc # "crashed"
        /\ errors[Len(errors)] = MsgInvalidKey
        /\ LastEntry = ErrorEntry(Cell(text_column, Len(results)))
        /\ Len(results) < df.nrows => pc = "iter" /\ ENABLED SendRequest
        /\ Len(results) = df.nrows => pc = "done"

\* a request is in flight after a 401 was reported
C8_Witness == pc = "await" /\ MsgInvalidKey \in Range(errors)

\* C9 (as stated): a row whose call succeeds with a top prediction (label,
\* score), score 0 included, gets the entry with that label, its category and
\* that score; a row has the entry Error only when its call failed.
C9_SuccessRecorded ==
    /\ (Handled /\ pc # "crashed" /\ Success2xx /\ ExpectedShape(response.body)) =>
          LET top == FirstGroup(response.body)[1].v
          IN  /\ LastEntry.detailed_emotion = top.label
              /\ LastEntry.sentiment = PyStr(Category(top.label.v))
              /\ LastEntry.confidence = top.score
    /\ (Handled /\ pc # "crashed" /\ LastEntry.sentiment = PyStr("Error")) =>
          ret = NoneTriple

\* C10: with a credential, the requests of a batch run are those of the rows
\* in row order, one each and none repeated; a request is issued only once the
\* entry of the row before is appended; a completed run has issued as many
\* requests as there are rows.
C10_OneRequestPerRow ==
    api_key # "" =>
        /\ Len(sent) <= df.nrows
        /\ \A k \in 1..Len(sent) : sent[k] = Request(Str(Cell(text_column, k)))
        /\ pc \in {"uploaded", "no_column", "ready"} => sent = <<>>
        /\ pc \in {"await", "crashed"} => Len(sent) = Len(results) + 1
        /\ pc \in {"iter", "done"} => Len(sent) = Len(results)
        /\ pc = "done" => Len(sent) = df.nrows

\* a run of several rows has completed although the call of its first row
\* failed
C10_Witness ==
    /\ pc = "done"
    /\ df.nrows >= 2
    /\ Len(sent) = df.nrows
    /\ results[1].sentiment = PyStr("Error")
    /\ errors # <<>>

====
